---- MODULE Spec2Model ----
(***************************************************************************)
(* tpMuscleSplineRig: a dialog that collects parameters and a builder      *)
(* (tpMuscleSplineRig.makeSpline) that creates and wires the nodes of a    *)
(* muscle spline rig in the host scene, inside one undo chunk.             *)
(*                                                                         *)
(* Node names are sequences of tokens; the '_' the code puts between the   *)
(* parts of a name is the boundary between two tokens.  Numbers that the   *)
(* code computes with float division are kept as fractions <<num, den>>.   *)
(*                                                                         *)
(* The scene is kept in two parts.  sceneNames holds, for every call so    *)
(* far, the names of the sets, groups and spline nodes it created: these   *)
(* are the names a later objExists can ask for.  nodes, attrs, conns,      *)
(* constraints and rigSet hold what the running call has created, in full, *)
(* from the call to the return of the body; the state with pc = "finally"  *)
(* is the state the body returned (or raised) in.                          *)
(***************************************************************************)
EXTENDS Integers, Sequences, FiniteSets, TLC

\* ---------------------------------------------------------------- bounds
MaxBuilds == 2
MaxControls == 4
MaxDrivens == 3
MaxDialogs == 2

\* ------------------------------------------------------ program constants
MinControls == 2
MinDrivens == 1

winName == "tpMuscleSplineRigDialog"
AlreadyExistsTitle == "Muscle/Spline Already Exists"
PluginError == "Impossible to load Maya Muscle plugin ..."
ExistsError == "Muscle spline already exists"
ZeroDivisionError == "ZeroDivisionError: float division by zero"

\* ------------------------------------------------------------------ inputs
Names == {"Arm"}
MuscleSplineNames == {"tpMuscleSpline", "Arm"}
GrpSuffixes == {"grp", "group"}
ControlTypes == {"cube", "circleY", "null"}
DrivenTypes == {"joint", "circleY", "null"}

\* The keyword arguments of tpMuscleSplineRig(...) with their defaults.
DefaultParams ==
    [name |-> "Arm",
     suffixCtrl |-> "ctrl", suffixGrp |-> "grp", suffixDrv |-> "drv",
     numControls |-> 3, controlType |-> "cube",
     numDrivens |-> 5, drivenType |-> "joint",
     constrainMid |-> FALSE,
     mainSetName |-> "setMUSCLERIGS",
     rigSetSuffix |-> "RIG",
     muscleSplineName |-> "tpMuscleSpline",
     controlsGrpSuffix |-> "controls", jointsGrpSuffix |-> "joints",
     rootSuffix |-> "root", autoSuffix |-> "auto",
     caller |-> "script"]

NoParams == [name |-> "", caller |-> "none"]

\* The calls a script makes: every argument not listed keeps its default.
BuildParams ==
    {[DefaultParams EXCEPT !.name = n, !.muscleSplineName = s, !.suffixGrp = g,
                           !.numControls = nc, !.controlType = ct,
                           !.numDrivens = nd, !.drivenType = dt,
                           !.constrainMid = cm] :
        n \in Names, s \in MuscleSplineNames, g \in GrpSuffixes,
        nc \in MinControls..MaxControls, ct \in ControlTypes,
        nd \in MinDrivens..MaxDrivens, dt \in DrivenTypes,
        cm \in BOOLEAN}

\* ------------------------------------------------------------------- state
VARIABLES
    pc,            \* position of the one (UI) thread inside makeSpline
    params,        \* arguments of the running makeSpline call
    raised,        \* the exception the last call raised, "" if none
    ret,           \* what the last call returned
    msgBox,        \* title of the message box the running call has shown
    undoDepth,     \* undo chunks open in the host
    undoChunks,    \* undo chunks closed so far
    numBuilds,     \* makeSpline calls started so far
    pluginLoaded,  \* pluginInfo('MayaMuscle.mll', loaded)
    sceneNames,    \* names objExists answers for: sets, groups, spline nodes
    rig,           \* fields of the tpMuscleSplineRig object
    nodes,         \* nodes the running call has created: id -> name, type, parent
    attrs,         \* attributes the running call has added: id -> defaults
    conns,         \* connections the running call has made
    constraints,   \* constraints the running call has made
    rigSet,        \* what the running call has put into the rig set
    successes,     \* <<name, muscleSplineName, suffixGrp>> of returned builds
    dialogs,       \* the dialogs named winName that exist, numbered as constructed
    nameLine,      \* text of the Name field
    enableCbx,     \* the Enable check box of the advanced setup
    createBtn,     \* enabled state of 'Create Muscle Spline Rig'
    advancedWidget \* enabled state of the advanced setup

undoVars == <<undoDepth, undoChunks>>
sceneVars == <<pluginLoaded, sceneNames, nodes, attrs, conns, constraints, rigSet>>
callVars == <<pc, params, raised, ret, msgBox, numBuilds, successes>>
dialogVars == <<dialogs, nameLine, enableCbx, createBtn, advancedWidget>>
vars == <<pc, params, raised, ret, msgBox, undoDepth, undoChunks, numBuilds,
          pluginLoaded, sceneNames, rig, nodes, attrs, conns, constraints,
          rigSet, successes, dialogs, nameLine, enableCbx, createBtn,
          advancedWidget>>

\* ------------------------------------------------------------- node names
World == <<"world", 0>>
Time1 == <<"time1", 0>>

mainGrpId == <<"mainGrp", 0>>
splineNodeId == <<"splineNode", 0>>
splineNodeXFormId == <<"splineNodeXForm", 0>>
controlsGrpId == <<"controlsGrp", 0>>
drivensGrpId == <<"drivensGrp", 0>>
blendId == <<"blend", 0>>

setRigName(p) == <<"set" \o p.name \o p.rigSetSuffix>>
mainGrpName(p) == <<p.name, p.muscleSplineName, p.suffixGrp>>
splineShapeName(p) == <<p.name, p.muscleSplineName \o "Shape">>
splineXFormName(p) == <<p.name, p.muscleSplineName>>
controlsGrpName(p) == <<p.name, p.muscleSplineName, p.controlsGrpSuffix>>
drivensGrpName(p) == <<p.name, p.muscleSplineName, p.jointsGrpSuffix>>
ctrlName(p, i) == <<p.name, p.muscleSplineName, ToString(i), p.suffixCtrl>>
drivenName(p, i) == <<p.name, p.muscleSplineName, ToString(i), p.suffixDrv>>

\* str.replace(old, new): every occurrence is replaced, not only the suffix.
replace(s, old, new) == [k \in DOMAIN s |-> IF s[k] = old THEN new ELSE s[k]]

EmptyRig == [mainGrp |-> <<>>, splineNode |-> <<>>, splineNodeXForm |-> <<>>,
             controlsGrp |-> <<>>, drivensGrp |-> <<>>,
             controls |-> <<>>, consGrps |-> <<>>, rootGrps |-> <<>>,
             drivens |-> <<>>]

objExists(names, n) == n \in names

Init ==
    /\ pc = "idle"
    /\ params = NoParams
    /\ raised = ""
    /\ ret = "none"
    /\ msgBox = ""
    /\ undoDepth = 0
    /\ undoChunks = 0
    /\ numBuilds = 0
    /\ pluginLoaded \in BOOLEAN
    /\ sceneNames = {}
    /\ rig = EmptyRig
    /\ nodes = <<>>
    /\ attrs = <<>>
    /\ conns = {}
    /\ constraints = {}
    /\ rigSet = {}
    /\ successes = {}
    /\ dialogs = {}
    /\ nameLine = ""
    /\ enableCbx = FALSE
    /\ createBtn = FALSE
    /\ advancedWidget = FALSE

\* ------------------------------------------------------------- fractions
Frac(a, b) == <<a, b>>
FracEq(q, r) == q[1] * r[2] = r[1] * q[2]
FracLess(q, r) == q[1] * r[2] < r[1] * q[2]
FracAdd(q, r) == <<q[1] * r[2] + r[1] * q[2], q[2] * r[2]>>
\* 1.0 - q
OneMinus(q) == <<q[2] - q[1], q[2]>>
\* 0.5 * q
Half(q) == <<q[1], 2 * q[2]>>

\* ---------------------------------------------------------------- tpUndo
\* cmds.undoInfo(openChunk=True)
openChunk(depth) == depth + 1

\* A wrapper that closes the chunk only when fn returns.
closeChunkOnReturn(depth, exc) == IF exc = "" THEN depth - 1 ELSE depth

\* The finally clause of the wrapper: the chunk is closed whether or not fn
\* raised.
closeChunk(depth, exc) == depth - 1

\* ------------------------------------------------------------ makeSpline
\* tpMuscleSplineRig(...): __init__ calls makeSpline, whose wrapper opens the
\* undo chunk before the body runs.
Call(p) ==
    /\ pc = "idle"
    /\ numBuilds < MaxBuilds
    /\ numBuilds' = numBuilds + 1
    /\ undoDepth' = openChunk(undoDepth)
    /\ pc' = "plugin"
    /\ params' = p
    /\ raised' = ""
    /\ ret' = "none"
    /\ msgBox' = ""
    /\ rig' = EmptyRig
    /\ UNCHANGED <<undoChunks, sceneVars, successes, dialogVars>>

makeSpline == \E p \in BuildParams : Call(p)

\* A body that goes on after loadPlugin has raised.
afterPluginCheckGoOn(loaded, loads) == "sets"

\* Where the body goes after the plugin check: on when the plugin is loaded
\* or loads, out with an error when loadPlugin raises.
afterPluginCheck(loaded, loads) == IF loaded \/ loads THEN "sets" ELSE "finally"

LoadPlugin ==
    /\ pc = "plugin"
    /\ \E loads \in BOOLEAN :
          /\ pluginLoaded' = (pluginLoaded \/ loads)
          /\ pc' = afterPluginCheck(pluginLoaded, loads)
          /\ raised' = IF pluginLoaded \/ loads THEN raised ELSE PluginError
    /\ UNCHANGED <<params, ret, msgBox, numBuilds, successes, undoVars,
                   sceneNames, rig, nodes, attrs, conns, constraints, rigSet,
                   dialogVars>>

\* The main set and the rig set, each created when it does not exist yet.
MakeSets ==
    /\ pc = "sets"
    /\ sceneNames' = sceneNames \cup {<<params.mainSetName>>, setRigName(params)}
    /\ pc' = "exists"
    /\ UNCHANGED <<params, raised, ret, msgBox, numBuilds, successes, undoVars,
                   pluginLoaded, rig, nodes, attrs, conns, constraints, rigSet,
                   dialogVars>>

\* A test that looks for the reversed spline name only.
alreadyExistsNoGroup(names, p) == objExists(names, <<p.muscleSplineName, p.name>>)

\* The test that guards the build.
alreadyExists(names, p) ==
    \/ objExists(names, <<p.muscleSplineName, p.name>>)
    \/ objExists(names, mainGrpName(p))

CheckExists ==
    /\ pc = "exists"
    /\ IF alreadyExists(sceneNames, params)
         THEN /\ msgBox' = AlreadyExistsTitle
              /\ raised' = ExistsError
              /\ pc' = "finally"
         ELSE /\ pc' = "groups"
              /\ UNCHANGED <<msgBox, raised>>
    /\ UNCHANGED <<params, ret, numBuilds, successes, undoVars, sceneVars, rig,
                   dialogVars>>

Node(n, t, par) == [name |-> n, type |-> t, parent |-> par]

\* Main group, spline node with its transform, controls group, drivens group.
MakeGroups ==
    /\ pc = "groups"
    /\ nodes' = (mainGrpId :> Node(mainGrpName(params), "group", World))
             @@ (splineNodeId :> Node(splineShapeName(params), "cMuscleSpline", splineNodeXFormId))
             @@ (splineNodeXFormId :> Node(splineXFormName(params), "transform", mainGrpId))
             @@ (controlsGrpId :> Node(controlsGrpName(params), "group", mainGrpId))
             @@ (drivensGrpId :> Node(drivensGrpName(params), "group", mainGrpId))
    /\ sceneNames' = sceneNames \cup
          {mainGrpName(params), splineShapeName(params), splineXFormName(params),
           controlsGrpName(params), drivensGrpName(params)}
    /\ rig' = [rig EXCEPT !.mainGrp = mainGrpId, !.splineNode = splineNodeId,
                          !.splineNodeXForm = splineNodeXFormId,
                          !.controlsGrp = controlsGrpId, !.drivensGrp = drivensGrpId]
    /\ rigSet' = {mainGrpId, splineNodeId, controlsGrpId, drivensGrpId}
    /\ attrs' = (splineNodeId :> [curLen |-> Frac(0, 1), pctSquash |-> Frac(0, 1),
                                  pctStretch |-> Frac(0, 1)])
    /\ conns' = {<<Time1, "outTime", splineNodeId, "inTime">>,
                 <<splineNodeId, "curLen", splineNodeId, "outLen">>,
                 <<splineNodeId, "pctSquash", splineNodeId, "outPctSquash">>,
                 <<splineNodeId, "pctStretch", splineNodeId, "outPctStretch">>}
    /\ pc' = "controls"
    /\ UNCHANGED <<params, raised, ret, msgBox, numBuilds, successes, undoVars,
                   pluginLoaded, constraints, dialogVars>>

ctrlId(i) == <<"ctrl", i>>
rootId(i) == <<"root", i>>
autoId(i) == <<"auto", i>>
drivenId(i) == <<"driven", i>>
aimFwdId(i) == <<"aimFwd", i>>
aimBackId(i) == <<"aimBack", i>>
aimFwdRootId(i) == <<"aimFwdRoot", i>>
aimBckRootId(i) == <<"aimBckRoot", i>>
aimFwdConsId(i) == <<"aimFwdCons", i>>
aimBackConsId(i) == <<"aimBackCons", i>>

\* A loop that starts at the second control.
controlRangeFromOne(n) == 1 .. n - 1

\* range(numControls)
controlRange(n) == 0 .. n - 1

\* A loop that lets the end controls jiggle too.
jiggleEverywhere(i, n) == Frac(1, 1)

\* The default of jiggle, jiggleX, jiggleY and jiggleZ of control i.
jiggle(i, n) == IF i = 0 \/ i = n - 1 THEN Frac(0, 1) ELSE Frac(1, 1)

ctrlAttrs(i, n) ==
    [tangentLength |-> Frac(1, 1),
     jiggle |-> jiggle(i, n), jiggleX |-> jiggle(i, n),
     jiggleY |-> jiggle(i, n), jiggleZ |-> jiggle(i, n),
     jiggleImpact |-> Half(jiggle(i, n)),
     jiggleImpactStart |-> Frac(1000, 1), jiggleImpactStop |-> Frac(1, 1000),
     cycle |-> Frac(12, 1), rest |-> Frac(24, 1)]

\* A loop that wires every control to the first slot.
controlDataFirst(i, a) == "controlData[0]." \o a

\* splineNode + '.controlData[' + str(i) + '].' + attribute
controlData(i, a) == "controlData[" \o ToString(i) \o "]." \o a

ctrlConns(i) ==
    {<<ctrlId(i), "worldMatrix", splineNodeId, controlData(i, "insertMatrix")>>} \cup
    {<<ctrlId(i), a, splineNodeId, controlData(i, a)>> :
        a \in {"tangentLength", "jiggle", "jiggleX", "jiggleY", "jiggleZ",
               "jiggleImpact", "jiggleImpactStart", "jiggleImpactStop",
               "cycle", "rest"}}

\* The nodes one pass of the controls loop creates and parents.
ctrlNodes(p, i) ==
       (ctrlId(i) :> Node(ctrlName(p, i), p.controlType, autoId(i)))
    @@ (rootId(i) :> Node(replace(ctrlName(p, i), p.suffixCtrl, p.rootSuffix),
                          "group", controlsGrpId))
    @@ (autoId(i) :> Node(replace(ctrlName(p, i), p.suffixCtrl, p.autoSuffix),
                          "group", rootId(i)))

\* What the passes of a loop over S create, pass x creating f[x].
RECURSIVE Merge(_, _)
Merge(f, S) ==
    IF S = {} THEN <<>>
    ELSE LET x == CHOOSE y \in S : TRUE IN f[x] @@ Merge(f, S \ {x})

\* The controls loop.
MakeControls ==
    /\ pc = "controls"
    /\ LET n == params.numControls
           R == controlRange(n)
           nodesOf == [i \in R |-> ctrlNodes(params, i)]
           attrsOf == [i \in R |-> ctrlId(i) :> ctrlAttrs(i, n)]
       IN /\ nodes' = nodes @@ Merge(nodesOf, R)
          /\ attrs' = attrs @@ Merge(attrsOf, R)
          /\ conns' = conns \cup UNION {ctrlConns(i) : i \in R}
          /\ rig' = [rig EXCEPT
                !.controls = [k \in 1 .. Cardinality(R) |->
                                 [control |-> ctrlId(k - 1), root |-> rootId(k - 1),
                                  auto |-> autoId(k - 1)]],
                !.rootGrps = [k \in 1 .. Cardinality(R) |-> rootId(k - 1)],
                !.consGrps = [k \in 1 .. Cardinality(R) |-> autoId(k - 1)]]
    /\ pc' = "constrain"
    /\ UNCHANGED <<params, raised, ret, msgBox, numBuilds, successes, undoVars,
                   pluginLoaded, sceneNames, constraints, rigSet, dialogVars>>

\* A loop that takes the last control for an in-between one.
midRangeToLast(n) == 1 .. n - 1

\* range(1, numControls - 1): the in-between controls.
midRange(n) == 1 .. n - 2

\* pct = 1.0 * i / (numControls - 1.0)
pct(i, n) == Frac(i, n - 1)

Cons(k, tgt, nd, w) == [kind |-> k, target |-> tgt, node |-> nd, weight |-> w]

\* The constraints one pass of the in-between loop makes.
midConstraints(i, n) ==
    {Cons("point", ctrlId(0), autoId(i), OneMinus(pct(i, n))),
     Cons("point", ctrlId(n - 1), autoId(i), pct(i, n)),
     Cons("aim", ctrlId(n - 1), aimFwdId(i), Frac(1, 1)),
     Cons("aim", ctrlId(0), aimBackId(i), Frac(1, 1)),
     Cons("point", ctrlId(0), aimFwdId(i), OneMinus(pct(i, n))),
     Cons("point", ctrlId(n - 1), aimFwdId(i), pct(i, n)),
     Cons("point", ctrlId(0), aimBackId(i), OneMinus(pct(i, n))),
     Cons("point", ctrlId(n - 1), aimBackId(i), pct(i, n)),
     Cons("orient", aimBackId(i), autoId(i), OneMinus(pct(i, n))),
     Cons("orient", aimFwdId(i), autoId(i), pct(i, n))}

\* The aim groups and their roots, parented as the end of the pass leaves them.
midNodes(p, i) ==
       (aimFwdId(i) :> Node(<<p.name, "aimFwd", ToString(i), p.suffixGrp>>,
                            "group", aimFwdRootId(i)))
    @@ (aimBackId(i) :> Node(<<p.name, "aimBack", ToString(i), p.suffixGrp>>,
                             "group", aimFwdRootId(i)))
    @@ (aimFwdRootId(i) :> Node(<<p.name, p.muscleSplineName, "grpAimFwd", p.rootSuffix>>,
                                "group", rootId(i)))
    @@ (aimBckRootId(i) :> Node(<<p.name, p.muscleSplineName, "grpAimBck", p.rootSuffix>>,
                                "group", rootId(i)))

midConns(i) ==
    {<<blendId, "output", c, a>> :
        c \in {aimFwdConsId(i), aimBackConsId(i)}, a \in {"upVector", "worldUpVector"}}

\* The in-between loop; the blend node is made once, in the pass for i = 1.
ConstrainMid ==
    /\ pc = "constrain"
    /\ LET n == params.numControls
           R == IF params.constrainMid THEN midRange(n) ELSE {}
           nodesOf == [i \in R |-> midNodes(params, i)]
       IN /\ constraints' = constraints \cup UNION {midConstraints(i, n) : i \in R}
          /\ nodes' = nodes @@ Merge(nodesOf, R) @@
                IF 1 \in R
                  THEN blendId :> Node(<<params.name, params.muscleSplineName, "Aim", "blend">>,
                                       "blendColors", World)
                  ELSE <<>>
          /\ attrs' = IF 1 \in R
                        THEN [attrs EXCEPT ![splineNodeId] =
                                 [upAxis |-> Frac(0, 1)] @@ attrs[splineNodeId]]
                        ELSE attrs
          /\ conns' = conns \cup UNION {midConns(i) : i \in R} \cup
                IF 1 \in R THEN {<<splineNodeId, "upAxis", blendId, "blender">>} ELSE {}
          /\ rigSet' = rigSet \cup UNION {{rootId(i), aimFwdId(i), aimBackId(i),
                                            aimFwdRootId(i), aimBckRootId(i)} : i \in R}
                              \cup IF 1 \in R THEN {blendId} ELSE {}
    /\ pc' = "drivens"
    /\ UNCHANGED <<params, raised, ret, msgBox, numBuilds, successes, undoVars,
                   pluginLoaded, sceneNames, rig, dialogVars>>

\* range(numDrivens)
drivenRange(m) == 0 .. m - 1

\* u = i / (numDrivens - 1.0)
uValue(i, m) == Frac(i, m - 1)

\* The float division of the first pass raises when its divisor is zero.
uValueRaises(m) == m >= 1 /\ m - 1 = 0

\* joint, circle, or an empty group for any other type.
drivenNodeType(t) ==
    IF t = "joint" THEN "joint" ELSE IF t = "circleY" THEN "circleY" ELSE "null"

drivenConns(i) ==
    {<<drivenId(i), "uValue", splineNodeId, "readData[" \o ToString(i) \o "].readU">>,
     <<drivenId(i), "rotateOrder", splineNodeId, "readData[" \o ToString(i) \o "].readRotOrder">>,
     <<splineNodeId, "outputData[" \o ToString(i) \o "].outTranslate", drivenId(i), "translate">>,
     <<splineNodeId, "outputData[" \o ToString(i) \o "].outRotate", drivenId(i), "rotate">>}

\* A loop that keeps its drivens in a local list.
drivensFieldLocal(R) == <<>>

\* The drivens recorded on the rig object.
drivensField(R) == [k \in 1 .. Cardinality(R) |-> drivenId(k - 1)]

\* The drivens loop.
MakeDrivens ==
    /\ pc = "drivens"
    /\ LET m == params.numDrivens
           R == drivenRange(m)
           nodesOf == [i \in R |-> drivenId(i) :> Node(drivenName(params, i),
                                                       drivenNodeType(params.drivenType),
                                                       drivensGrpId)]
           attrsOf == [i \in R |-> drivenId(i) :> [uValue |-> uValue(i, m)]]
       IN IF uValueRaises(m)
            THEN /\ raised' = ZeroDivisionError
                 /\ pc' = "finally"
                 /\ rig' = [rig EXCEPT !.drivens = <<>>]
                 /\ UNCHANGED <<nodes, attrs, conns, rigSet>>
            ELSE /\ nodes' = nodes @@ Merge(nodesOf, R)
                 /\ attrs' = attrs @@ Merge(attrsOf, R)
                 /\ conns' = conns \cup UNION {drivenConns(i) : i \in R}
                 /\ rigSet' = rigSet \cup {drivenId(i) : i \in R}
                 /\ rig' = [rig EXCEPT !.drivens = drivensField(R)]
                 /\ pc' = "return"
                 /\ UNCHANGED raised
    /\ UNCHANGED <<params, ret, msgBox, numBuilds, successes, undoVars,
                   pluginLoaded, sceneNames, constraints, dialogVars>>

\* The spline lengths are stored, the main group selected, the node returned.
Return ==
    /\ pc = "return"
    /\ ret' = "splineNode"
    /\ pc' = "finally"
    /\ UNCHANGED <<params, raised, msgBox, numBuilds, successes, undoVars,
                   sceneVars, rig, dialogVars>>

buildKey(p) == <<p.name, p.muscleSplineName, p.suffixGrp>>

\* What the caller keeps of the rig object: nothing when the constructor
\* raised, nothing when the dialog's slot returned it to the toolkit.
keptRig(r, exc, caller) == IF exc # "" \/ caller = "dialog" THEN EmptyRig ELSE r

\* The wrapper's finally clause, then the return to the caller.
CloseChunk ==
    /\ pc = "finally"
    /\ undoDepth' = closeChunk(undoDepth, raised)
    /\ undoChunks' = undoChunks + (undoDepth - undoDepth')
    /\ successes' = IF raised = "" THEN successes \cup {buildKey(params)} ELSE successes
    /\ rig' = keptRig(rig, raised, params.caller)
    /\ params' = NoParams
    /\ pc' = "idle"
    /\ nodes' = <<>>
    /\ attrs' = <<>>
    /\ conns' = {}
    /\ constraints' = {}
    /\ rigSet' = {}
    /\ UNCHANGED <<raised, ret, msgBox, numBuilds, pluginLoaded, sceneNames,
                   dialogVars>>

Build ==
    \/ LoadPlugin
    \/ MakeSets
    \/ CheckExists
    \/ MakeGroups
    \/ MakeControls
    \/ ConstrainMid
    \/ MakeDrivens
    \/ Return
    \/ CloseChunk

Next ==
    \/ makeSpline
    \/ Build

Spec == Init /\ [][Next]_vars

\* ---------------------------------------------------------------- dialog
\* What the user can type into the Name field.
NameTexts == {"", "Char01_Spine", "Arm"}

\* cmds.window(winName, exists=True)
windowExists(D) == D # {}

\* A constructor that leaves the open dialog alone.
keepOpen(D) == D

\* cmds.deleteUI(winName, window=True) when the window exists.
deleteOpen(D) == IF windowExists(D) THEN D \ {CHOOSE d \in D : TRUE} ELSE D

\* The number the next dialog gets.
newDialog(D) == IF D = {} THEN 1 ELSE 1 + CHOOSE d \in D : \A e \in D : e <= d

\* tpMuscleSplineRigWin().show(): the constructor deletes the open dialog,
\* names the new one and builds its widgets with their initial values.
initUI ==
    /\ pc = "idle"
    /\ newDialog(dialogs) <= MaxDialogs
    /\ dialogs' = deleteOpen(dialogs) \cup {newDialog(dialogs)}
    /\ nameLine' = "Char01_Spine"
    /\ enableCbx' = FALSE
    /\ advancedWidget' = FALSE
    /\ createBtn' = TRUE
    /\ UNCHANGED <<callVars, undoVars, sceneVars, rig>>

\* A button that is never disabled.
createBtnAlways(text) == TRUE

\* createMuscleSplineRigBtn.setEnabled(not nameLine.text() == '')
createBtnState(text) == ~(text = "")

\* advancedWidget.setEnabled(enableCbx.isChecked())
advancedState(checked) == checked

checkUIState(text, checked) ==
    /\ createBtn' = createBtnState(text)
    /\ advancedWidget' = advancedState(checked)

\* nameLine.textChanged
EditName ==
    /\ pc = "idle"
    /\ dialogs # {}
    /\ \E t \in NameTexts \ {nameLine} :
          /\ nameLine' = t
          /\ checkUIState(t, enableCbx)
    /\ UNCHANGED <<dialogs, enableCbx, callVars, undoVars, sceneVars, rig>>

\* enableCbx.toggled
ToggleEnable ==
    /\ pc = "idle"
    /\ dialogs # {}
    /\ enableCbx' = ~enableCbx
    /\ checkUIState(nameLine, ~enableCbx)
    /\ UNCHANGED <<dialogs, nameLine, callVars, undoVars, sceneVars, rig>>

\* The widgets' values the slot reads; the line edits of the advanced setup
\* and the two type boxes keep their initial values.
DialogParams(text) ==
    {[DefaultParams EXCEPT !.name = text, !.controlsGrpSuffix = "ctrls",
                           !.numControls = nc, !.numDrivens = nd,
                           !.constrainMid = cm, !.caller = "dialog"] :
        nc \in MinControls..MaxControls, nd \in MinDrivens..MaxDrivens,
        cm \in BOOLEAN}

\* createMuscleSplineRigBtn.clicked: only an enabled button can be clicked.
_createMuscleSpline ==
    /\ dialogs # {}
    /\ createBtn
    /\ \E p \in DialogParams(nameLine) : Call(p)

\* tpMuscleSplineRig(name) from a script, every other argument at its default.
makeSplineDefaults == \E n \in Names : Call([DefaultParams EXCEPT !.name = n])

NextUI ==
    \/ initUI
    \/ makeSplineDefaults
    \/ EditName
    \/ ToggleEnable
    \/ _createMuscleSpline
    \/ Build

SpecUI == Init /\ [][NextUI]_vars

\* ================================================================ claims

\* A scene modification: a name appears in the scene, or the running call
\* creates, connects or constrains something.
SceneModified ==
    \/ sceneNames' # sceneNames
    \/ /\ pc # "finally"
       /\ <<nodes, attrs, conns, constraints, rigSet>>' #
          <<nodes, attrs, conns, constraints, rigSet>>

\* C1: every makeSpline call runs inside exactly one undo chunk.  A chunk is
\* open exactly while a call is running, so chunks never nest and every call
\* that has ended, normally or by an exception, has closed its chunk; opens
\* and closes pair up over any sequence of builds; and the scene is modified
\* only between the open and the close.
C1_OneUndoChunk ==
    /\ [](/\ undoDepth = (IF pc = "idle" THEN 0 ELSE 1)
          /\ undoChunks + undoDepth = numBuilds)
    /\ [][SceneModified => (undoDepth = 1 /\ undoDepth' = 1)]_vars

\* Two builds have ended, the last one by an exception raised after the
\* scene had been modified, and no chunk is left open.
C1_Witness ==
    /\ pc = "idle"
    /\ undoChunks >= 2
    /\ raised = ZeroDivisionError
    /\ sceneNames # {}
    /\ undoDepth = 0

\* C5: in every state of the dialog the create button is enabled exactly
\* when the Name field is not empty, and the builder never runs on behalf of
\* the dialog with an empty name.
C5_ButtonIffName ==
    /\ dialogs # {} => (createBtn <=> nameLine # "")
    /\ (pc # "idle" /\ params.caller = "dialog") => params.name # ""

\* The Name field has been emptied with the advanced setup enabled: the
\* button is disabled.
C5_Witness ==
    /\ dialogs # {}
    /\ nameLine = ""
    /\ enableCbx
    /\ ~createBtn

\* C2 (as amended): when makeSpline returns, the rig object records the
\* nodes it built (main group, spline node and transform, controls group,
\* drivens group, and the lists of controls, root groups, auto groups and
\* drivens), and a script that keeps the object keeps that record; the dialog
\* records nothing: no field of it changes while the builder runs, and the
\* rig object its slot returns is dropped.
C2_RigRecordsBuild ==
    /\ []((pc = "finally" /\ raised = "") =>
            /\ rig.mainGrp = mainGrpId
            /\ rig.splineNode = splineNodeId
            /\ rig.splineNodeXForm = splineNodeXFormId
            /\ rig.controlsGrp = controlsGrpId
            /\ rig.drivensGrp = drivensGrpId
            /\ Len(rig.controls) = params.numControls
            /\ Len(rig.rootGrps) = params.numControls
            /\ Len(rig.consGrps) = params.numControls
            /\ Len(rig.drivens) = params.numDrivens
            /\ \A k \in 1 .. Len(rig.drivens) : rig.drivens[k] \in DOMAIN nodes
            /\ \A k \in 1 .. Len(rig.controls) :
                  {rig.controls[k].control, rig.rootGrps[k], rig.consGrps[k]}
                      \subseteq DOMAIN nodes)
    /\ [][/\ pc # "idle" => UNCHANGED dialogVars
          /\ (pc = "finally" /\ raised = "" /\ params.caller = "script") => rig' = rig
          /\ (pc = "finally" /\ params.caller = "dialog") => rig' = EmptyRig]_vars

\* A script's build has returned while the dialog is open, and the rig
\* object the script holds lists the three controls and five drivens.
C2_Witness ==
    /\ pc = "idle"
    /\ dialogs # {}
    /\ raised = ""
    /\ ret = "splineNode"
    /\ Len(rig.controls) = 3
    /\ Len(rig.drivens) = 5

\* C2 as stated: once the builder has returned, the rig object records none
\* of the nodes that were built.
C2_NothingRetained ==
    (pc = "idle" /\ raised = "" /\ ret = "splineNode") => rig = EmptyRig

\* C3: a makeSpline whose name, muscleSplineName and suffixGrp are those of
\* a build that returned earlier never gets past the existence test: it
\* shows the 'Already Exists' box, raises, and creates no node, constraint
\* or connection and records nothing on the rig object.
C3_SecondBuildRejected ==
    (/\ pc \in {"groups", "controls", "constrain", "drivens", "return", "finally"}
     /\ buildKey(params) \in successes)
    => /\ pc = "finally"
       /\ raised = ExistsError
       /\ msgBox = AlreadyExistsTitle
       /\ ret = "none"
       /\ nodes = <<>> /\ attrs = <<>> /\ conns = {} /\ constraints = {}
       /\ rigSet = {}
       /\ rig = EmptyRig

\* A second build with the key of a returned one, whose name differs from
\* its spline name, has been rejected.
C3_Witness ==
    /\ pc = "finally"
    /\ buildKey(params) \in successes
    /\ params.name # params.muscleSplineName
    /\ raised = ExistsError
    /\ msgBox = AlreadyExistsTitle

\* C4: the plugin is looked at before the scene is touched; when it is not
\* loaded and loading fails the call raises and the scene stays as it was;
\* when it is loaded or loads, the build goes on, and nothing is built
\* without the plugin.
C4_PluginFirst ==
    /\ [](/\ pc = "plugin" => (nodes = <<>> /\ conns = {} /\ rigSet = {})
          /\ (pc = "finally" /\ raised = PluginError) =>
                (~pluginLoaded /\ nodes = <<>> /\ attrs = <<>> /\ conns = {}
                 /\ constraints = {} /\ rigSet = {} /\ rig = EmptyRig)
          /\ pc \in {"sets", "exists", "groups", "controls", "constrain",
                     "drivens", "return"} => pluginLoaded)
    /\ [][(pc \in {"idle", "plugin"}) =>
             (/\ sceneNames' = sceneNames
              /\ (pc = "plugin" /\ pluginLoaded') => (pc' = "sets" /\ raised' = "")
              /\ (pc = "plugin" /\ ~pluginLoaded') =>
                    (pc' = "finally" /\ raised' = PluginError))]_vars

\* The plugin was not loaded and did not load: the call has raised, and the
\* scene is as empty as before.
C4_Witness ==
    /\ pc = "finally"
    /\ raised = PluginError
    /\ ~pluginLoaded
    /\ sceneNames = {}
    /\ undoDepth = 1

\* C6: at most one dialog named winName exists, whatever number of times
\* the UI is opened.
C6_OneDialog == Cardinality(dialogs) <= 1

\* The UI was opened while open: the second dialog is the one that exists.
C6_Witness == dialogs = {2}

\* The nodes of the running call whose id has the given role.
NodesOf(role) == {id \in DOMAIN nodes : id[1] = role}

Returned == pc = "finally" /\ raised = "" /\ ret = "splineNode"

PointOn(nd) == {c \in constraints : c.kind = "point" /\ c.node = nd}

\* C8: once the in-between loop is done, with constrainMid true the auto
\* group of every control i strictly between the first and the last has two
\* point constraints, to the first control with weight 1 - i/(n-1) and to
\* the last with weight i/(n-1), which add up to 1, and nothing of the first
\* or the last control is constrained; with constrainMid false or n = 2
\* there is no constraint, no aim group and no blend node.
C8_MidConstraints ==
    (pc \in {"drivens", "return"} \/ (pc = "finally" /\ raised \in {"", ZeroDivisionError})) =>
        LET n == params.numControls
        IN /\ \A c \in constraints :
                 c.node \notin {ctrlId(0), autoId(0), rootId(0),
                                ctrlId(n - 1), autoId(n - 1), rootId(n - 1)}
           /\ params.constrainMid =>
                 \A i \in 1 .. n - 2 :
                    /\ Cardinality(PointOn(autoId(i))) = 2
                    /\ \E a, b \in PointOn(autoId(i)) :
                          /\ a.target = ctrlId(0)
                          /\ b.target = ctrlId(n - 1)
                          /\ FracEq(a.weight, Frac(n - 1 - i, n - 1))
                          /\ FracEq(b.weight, Frac(i, n - 1))
                          /\ FracEq(FracAdd(a.weight, b.weight), Frac(1, 1))
           /\ (~params.constrainMid \/ n = 2) =>
                 /\ constraints = {}
                 /\ NodesOf("aimFwd") = {} /\ NodesOf("aimBack") = {}
                 /\ NodesOf("aimFwdRoot") = {} /\ NodesOf("aimBckRoot") = {}
                 /\ NodesOf("blend") = {}

\* Four controls with constrainMid: controls 1 and 2 are constrained, with
\* weights 2/3, 1/3 and 1/3, 2/3.
C8_Witness ==
    /\ Returned
    /\ params.constrainMid
    /\ params.numControls = 4
    /\ Cons("point", ctrlId(0), autoId(1), Frac(2, 3)) \in constraints
    /\ Cons("point", ctrlId(3), autoId(2), Frac(2, 3)) \in constraints
    /\ blendId \in DOMAIN nodes

\* C9: no build gets past the existence test while the scene holds a node
\* with the name its spline transform will get, name_muscleSplineName.
C9_RejectsExistingSpline ==
    pc = "groups" => ~objExists(sceneNames, splineXFormName(params))

\* C10: no build fails in the drivens loop, and driven i of m gets the
\* uValue default i/(m-1): between 0 and 1, 0 for the first driven, 1 for
\* the last, strictly increasing in i.
C10_UValues ==
    (pc = "finally" /\ raised \notin {PluginError, ExistsError}) =>
        LET m == params.numDrivens
            u(i) == attrs[drivenId(i)].uValue
        IN /\ raised = ""
           /\ \A i \in 0 .. m - 1 :
                 /\ drivenId(i) \in DOMAIN attrs
                 /\ u(i)[2] # 0
                 /\ ~FracLess(u(i), Frac(0, 1)) /\ ~FracLess(Frac(1, 1), u(i))
                 /\ i < m - 1 => FracLess(u(i), u(i + 1))
           /\ FracEq(u(0), Frac(0, 1))
           /\ FracEq(u(m - 1), Frac(1, 1))

\* The inputs of one controlData slot with the control attribute that
\* drives each.
SlotInputs ==
    {<<"worldMatrix", "insertMatrix">>} \cup
    {<<a, a>> : a \in {"tangentLength", "jiggle", "jiggleX", "jiggleY", "jiggleZ",
                       "jiggleImpact", "jiggleImpactStart", "jiggleImpactStop",
                       "cycle", "rest"}}

Indexed(array, i, a) == array \o "[" \o ToString(i) \o "]." \o a

\* The connections that arrive at attribute a of node nd.
Into(nd, a) == {c \in conns : c[3] = nd /\ c[4] = a}

\* The connections that leave attribute a of node nd.
OutOf(nd, a) == {c \in conns : c[1] = nd /\ c[2] = a}

\* C11: in a build that has returned, every input of controlData[i] has
\* exactly one connection, from control i, and control i is connected to
\* nothing else; readData[j] is fed by driven j alone, and translate and
\* rotate of driven j come from outputData[j] alone; no slot is left out
\* and none is connected twice.
C11_IndexAlignedWiring ==
    Returned =>
        LET n == params.numControls
            m == params.numDrivens
        IN /\ \A i \in 0 .. n - 1 : \A sa \in SlotInputs :
                 Into(splineNodeId, Indexed("controlData", i, sa[2])) =
                    {<<ctrlId(i), sa[1], splineNodeId, Indexed("controlData", i, sa[2])>>}
           /\ \A i \in 0 .. n - 1 :
                 Cardinality({c \in conns : c[1] = ctrlId(i) \/ c[3] = ctrlId(i)}) =
                    Cardinality(SlotInputs)
           /\ Cardinality({c \in conns : c[1][1] = "ctrl"}) = n * Cardinality(SlotInputs)
           /\ \A j \in 0 .. m - 1 :
                 /\ Into(splineNodeId, Indexed("readData", j, "readU")) =
                       {<<drivenId(j), "uValue", splineNodeId, Indexed("readData", j, "readU")>>}
                 /\ Into(splineNodeId, Indexed("readData", j, "readRotOrder")) =
                       {<<drivenId(j), "rotateOrder", splineNodeId,
                          Indexed("readData", j, "readRotOrder")>>}
                 /\ Into(drivenId(j), "translate") =
                       {<<splineNodeId, Indexed("outputData", j, "outTranslate"),
                          drivenId(j), "translate">>}
                 /\ Into(drivenId(j), "rotate") =
                       {<<splineNodeId, Indexed("outputData", j, "outRotate"),
                          drivenId(j), "rotate">>}
                 /\ Cardinality(OutOf(splineNodeId, Indexed("outputData", j, "outTranslate"))) = 1
                 /\ Cardinality(OutOf(splineNodeId, Indexed("outputData", j, "outRotate"))) = 1
                 /\ Cardinality({c \in conns : c[1] = drivenId(j) \/ c[3] = drivenId(j)}) = 4
           /\ Cardinality({c \in conns : c[1][1] = "driven" \/ c[3][1] = "driven"}) = 4 * m

\* Four controls and three drivens have been wired: the last control drives
\* slot 3 and the last driven reads slot 2.
C11_Witness ==
    /\ Returned
    /\ params.numControls = 4
    /\ params.numDrivens = 3
    /\ <<ctrlId(3), "rest", splineNodeId, "controlData[3].rest">> \in conns
    /\ <<splineNodeId, "outputData[2].outRotate", drivenId(2), "rotate">> \in conns

\* C12: with constrainMid, in a build that has returned, the forward aim
\* group of every in-between control is under the forward root, the back
\* aim group under the back root, and both roots under the root group of
\* that control.
C12_AimGroupsUnderOwnRoots ==
    (Returned /\ params.constrainMid) =>
        \A i \in 1 .. params.numControls - 2 :
           /\ nodes[aimFwdId(i)].parent = aimFwdRootId(i)
           /\ nodes[aimBackId(i)].parent = aimBckRootId(i)
           /\ nodes[aimFwdRootId(i)].parent = rootId(i)
           /\ nodes[aimBckRootId(i)].parent = rootId(i)

JiggleAttrs == {"jiggle", "jiggleX", "jiggleY", "jiggleZ"}

\* C13: once the controls exist, the first and the last control have
\* default 0 for jiggle, jiggleX, jiggleY, jiggleZ and jiggleImpact, and
\* every control between them has default 1 for the four jiggles and 0.5 for
\* jiggleImpact; with two controls no control jiggles.
C13_MiddleControlsJiggle ==
    (pc \in {"constrain", "drivens", "return"}
       \/ (pc = "finally" /\ raised \in {"", ZeroDivisionError})) =>
        LET n == params.numControls
        IN /\ \A i \in {0, n - 1} :
                 /\ \A a \in JiggleAttrs : FracEq(attrs[ctrlId(i)][a], Frac(0, 1))
                 /\ FracEq(attrs[ctrlId(i)].jiggleImpact, Frac(0, 1))
           /\ \A i \in 1 .. n - 2 :
                 /\ \A a \in JiggleAttrs : FracEq(attrs[ctrlId(i)][a], Frac(1, 1))
                 /\ FracEq(attrs[ctrlId(i)].jiggleImpact, Frac(1, 2))
           /\ n = 2 =>
                 \A c \in NodesOf("ctrl") : \A a \in JiggleAttrs \cup {"jiggleImpact"} :
                    FracEq(attrs[c][a], Frac(0, 1))

\* Four controls: the two in the middle jiggle, the two at the ends do not.
C13_Witness ==
    /\ Returned
    /\ params.numControls = 4
    /\ attrs[ctrlId(0)].jiggle = Frac(0, 1)
    /\ attrs[ctrlId(1)].jiggle = Frac(1, 1)
    /\ FracEq(attrs[ctrlId(2)].jiggleImpact, Frac(1, 2))
    /\ attrs[ctrlId(3)].jiggleZ = Frac(0, 1)

====
